---------------------------- MODULE Spec2Model ----------------------------
(***************************************************************************)
(* Model of src/dual_model.py: the dual-stage extraction pipeline          *)
(* (main, process_pdf, call_model_safely) and the entity-normalization     *)
(* engine (BatteryEntityExtractor).                                        *)
(*                                                                         *)
(* Texts are sequences of tokens.  A classification answer is a sequence   *)
(* of one-character strings, so that strip(), lower() and the substring    *)
(* test of process_pdf are computed as Python computes them.  A document   *)
(* text or a model-provided field value is a sequence of lexical tokens    *)
(* (a number literal, a unit, a separator, a keyword); the regular         *)
(* expressions of the extractor are translated to patterns over these      *)
(* tokens and matched leftmost-first in the order of the source's lists.   *)
(* Numbers are rationals [n, d] in lowest terms.                           *)
(***************************************************************************)
EXTENDS Integers, Sequences, FiniteSets, TLC

(***************************************************************************)
(* Bounds of the model.                                                    *)
(***************************************************************************)
MaxDocs == 2            \* PDF files in the folder: 0..MaxDocs
MaxRetriesBound == 4    \* max_retries of a stand-alone call: 0..MaxRetriesBound
MaxPhrases == 2         \* phrases a text given to an extractor is made of

(***************************************************************************)
(* Program constants.                                                      *)
(***************************************************************************)
DefaultMaxRetries == 3  \* call_model_safely(..., max_retries=3)
ShortWait == 2          \* time.sleep(2) after a response without choices
LongWait == 5           \* time.sleep(5) after an exception
AbstractFallback == 1000    \* text[:1000] for a text without marker
AbstractLimit == 2000   \* the longest abstract returned

VARIABLES
    main_pc,    \* position of main: "start", "loop", "done"; or the name of
                \* the stand-alone operation a specification exercises
    pdf_index,  \* 1-based index of the document the loop of main is at
    stats,      \* the run-scoped Stats object
    stats0,     \* copy of stats taken when process_pdf was entered
    doc,        \* the frame of the current process_pdf call
    call,       \* the frame of the current call_model_safely call
    output,     \* what the run has written: record files, summary
    std,        \* the frame of a standardize_json_data call
    ext         \* the frame of a call of one extractor or of extract_abstract

vars == <<main_pc, pdf_index, stats, stats0, doc, call, output, std, ext>>

(***************************************************************************)
(* Small helpers.                                                          *)
(***************************************************************************)
RECURSIVE Gcd(_, _)
Gcd(a, b) == IF b = 0 THEN a ELSE Gcd(b, a % b)

(***************************************************************************)
(* Characters: str.strip(), str.lower() and the substring test, as used on *)
(* the classification answer (process_pdf, lines 729-732).                 *)
(***************************************************************************)
\* str.lower() of one character
LowerChar(c) ==
    LET upper == <<"A", "B", "C", "D", "E", "F", "G", "H", "I", "J", "K", "L", "M",
                   "N", "O", "P", "Q", "R", "S", "T", "U", "V", "W", "X", "Y", "Z">>
        lower == <<"a", "b", "c", "d", "e", "f", "g", "h", "i", "j", "k", "l", "m",
                   "n", "o", "p", "q", "r", "s", "t", "u", "v", "w", "x", "y", "z">>
    IN  IF \E i \in 1..26 : upper[i] = c
        THEN lower[CHOOSE i \in 1..26 : upper[i] = c]
        ELSE c

StrLower(s) == [i \in 1..Len(s) |-> LowerChar(s[i])]

StrStrip(s) ==
    LET keep == {i \in 1..Len(s) : s[i] \notin {" ", "\n", "\t"}}
    IN  IF keep = {} THEN <<>>
        ELSE LET lo == CHOOSE i \in keep : \A j \in keep : i <= j
                 hi == CHOOSE i \in keep : \A j \in keep : i >= j
             IN  SubSeq(s, lo, hi)

\* Python's "sub in s"
StrContains(s, sub) ==
    \E i \in 1..(Len(s) - Len(sub) + 1) : SubSeq(s, i, i + Len(sub) - 1) = sub

(***************************************************************************)
(* Numbers.  A Python float or int is a rational [n, d] in lowest terms    *)
(* with d > 0.                                                             *)
(***************************************************************************)
Rat(n, d) ==
    LET g == Gcd(IF n < 0 THEN -n ELSE n, IF d < 0 THEN -d ELSE d)
        sgn == IF d < 0 THEN -1 ELSE 1
    IN  [n |-> (sgn * n) \div g, d |-> (sgn * d) \div g]

\* (a + b) / 2
RatMean(a, b) == Rat(a.n * b.d + b.n * a.d, 2 * a.d * b.d)

RatNeg(a) == [n |-> -a.n, d |-> a.d]

RatMin(a, b) == IF a.n * b.d <= b.n * a.d THEN a ELSE b

RatMax(a, b) == IF a.n * b.d <= b.n * a.d THEN b ELSE a

(***************************************************************************)
(* Tokens and texts.  A token is [k, n, d]: k is its lexical kind; a       *)
(* number literal has kind "num" and denotes n/d (an integer literal has   *)
(* d = 1).  A kind stands for the character strings the source's regular   *)
(* expressions treat alike:                                                *)
(*   "deg"  the degree sign, "deg", "degrees"   "csign"  the sign U+2103   *)
(*   "C"    a stand-alone capital C             "c"      a stand-alone c   *)
(*   "V"    V, volt, volts                      "-"      a dash            *)
(*   "lower limit"  lower|low + limit|cutoff|voltage  (same for "upper")   *)
(*   "cut-off"      cut-off|cutoff|limiting, optionally + " voltage"       *)
(*   "room temperature"  room|ambient + temp(erature)                      *)
(*   "mAh/g", "mA/g"     the capacity and current-density units            *)
(*   "ws"   white space (kept only where the source's code looks at it)    *)
(*   "word" any other word                                                 *)
(***************************************************************************)
W(k) == [k |-> k, n |-> 0, d |-> 1]

Num(n, d) == [k |-> "num", n |-> n, d |-> d]

\* text with its white space removed: the patterns allow \s* between tokens
Squeeze(text) == SelectSeq(text, LAMBDA t : t.k # "ws")

\* str.strip() of a text
Strip(text) ==
    LET keep == {i \in 1..Len(text) : text[i].k # "ws"}
    IN  IF keep = {} THEN <<>>
        ELSE LET lo == CHOOSE i \in keep : \A j \in keep : i <= j
                 hi == CHOOSE i \in keep : \A j \in keep : i >= j
             IN  SubSeq(text, lo, hi)

\* float(literal)
Float(tok) == Rat(tok.n, tok.d)

(***************************************************************************)
(* JSON / Python values of a record field: [t, n, d, s].                   *)
(*   t = "num": the number n/d;  t = "str": the text s;  t = "null": None  *)
(***************************************************************************)
NumV(r) == [t |-> "num", n |-> r.n, d |-> r.d, s |-> <<>>]

StrV(text) == [t |-> "str", n |-> 0, d |-> 1, s |-> text]

None == [t |-> "null", n |-> 0, d |-> 1, s |-> <<>>]

NA == StrV(<<W("N/A")>>)

IsNone(v) == v.t = "null"

\* Python truthiness of a value
Truthy(v) ==
    CASE v.t = "null" -> FALSE
      [] v.t = "str" -> v.s # <<>>
      [] OTHER -> v.n # 0

\* str(value), for a value that is a string or a number
StrOf(v) ==
    IF v.t = "str" THEN v.s
    ELSE IF v.n < 0 THEN <<W("-"), Num(-v.n, v.d)>> ELSE <<Num(v.n, v.d)>>

(***************************************************************************)
(* Regular expressions over tokens.  A pattern is a sequence of            *)
(* alternatives (the regex's top-level "|"), an alternative a sequence of  *)
(* elements, an element a set of token kinds, optional or not.  Matching   *)
(* is Python's: leftmost start, first alternative that matches, optional   *)
(* elements greedy.                                                        *)
(***************************************************************************)
One(ks) == [ks |-> ks, opt |-> FALSE]

Opt(ks) == [ks |-> ks, opt |-> TRUE]

\* the classes of a token: its kind, and "int" for a literal that is all
\* digits (what (\d+) followed by white space can capture whole)
KindsOf(tok) == {tok.k} \cup (IF tok.k = "num" /\ tok.d = 1 THEN {"int"} ELSE {})

\* the position after the match of alt[j..] at text[i..], 0 when none
RECURSIVE MatchFrom(_, _, _, _)
MatchFrom(alt, j, text, i) ==
    IF j > Len(alt) THEN i
    ELSE LET take == IF i <= Len(text) /\ KindsOf(text[i]) \cap alt[j].ks # {}
                     THEN MatchFrom(alt, j + 1, text, i + 1)
                     ELSE 0
         IN  IF take # 0 THEN take
             ELSE IF alt[j].opt THEN MatchFrom(alt, j + 1, text, i)
             ELSE 0

\* the match of the alternatives a.. of the pattern that starts exactly at
\* position i: the first alternative that matches there
RECURSIVE MatchAlternatives(_, _, _, _)
MatchAlternatives(pat, a, text, i) ==
    IF a > Len(pat) THEN [start |-> 0, end |-> 0]
    ELSE IF MatchFrom(pat[a], 1, text, i) # 0
    THEN [start |-> i, end |-> MatchFrom(pat[a], 1, text, i) - 1]
    ELSE MatchAlternatives(pat, a + 1, text, i)

\* the match of the pattern that starts exactly at position i
MatchAt(pat, text, i) == MatchAlternatives(pat, 1, text, i)

\* re.search from position from: the leftmost match, with start 0 when none
RECURSIVE SearchFrom(_, _, _)
SearchFrom(pat, text, from) ==
    IF from > Len(text) THEN [start |-> 0, end |-> 0]
    ELSE IF MatchAt(pat, text, from).start # 0 THEN MatchAt(pat, text, from)
    ELSE SearchFrom(pat, text, from + 1)

\* re.finditer: the successive non-overlapping matches, left to right
RECURSIVE FindIterFrom(_, _, _)
FindIterFrom(pat, text, from) ==
    IF SearchFrom(pat, text, from).start = 0 THEN <<>>
    ELSE <<SearchFrom(pat, text, from)>>
            \o FindIterFrom(pat, text, SearchFrom(pat, text, from).end + 1)

\* match.group()
Group(text, m) == SubSeq(text, m.start, m.end)

\* re.findall(r'(\d+\.?\d*)', s): the number literals of s, in order
Numbers(s) == SelectSeq(s, LAMBDA t : t.k = "num")

\* one kind of s is in ks ("x in s" for a keyword, a sign or a separator)
HasKind(s, ks) == \E i \in 1..Len(s) : s[i].k \in ks

SEP == {"-", "~", "to", "and"}

\* [Cc] at the end of a pattern whose look-ahead is optional, "(?!\w)?": a
\* stand-alone C, or the first letter of a word
CSTART ==
    {"C", "c", "charge", "charge:", "constant current", "cycles", "cycle life",
     "cut-off", "capacity", "capacity retention", "carbon", "CMC"}

\* [Cc] right before "/" or "-": a stand-alone C, or the last letter of a word
CEND == {"C", "c", "CMC"}

\* re.search(r'\d+\s*(?:-|...|~|to|and)\s*\d+', s)
HasRange(s) ==
    \E i \in 1..(Len(s) - 2) :
        s[i].k = "num" /\ s[i + 1].k \in SEP /\ s[i + 2].k = "num"

(***************************************************************************)
(* BatteryEntityExtractor.__init__: the pattern lists, in source order.    *)
(***************************************************************************)
temperature_patterns == <<
    << <<One({"num"}), Opt({"deg", "csign"}), One({"C", "c"})>> >>,
    << <<One({"num"}), One({"csign"})>> >>,
    << <<One({"room temperature"})>>, <<One({"RT"})>> >>,
    << <<One({"-"}), One({"num"}), Opt({"deg", "csign"}), One({"C", "c"})>> >>,
    << <<One({"num"}), One(SEP), One({"num"}), Opt({"deg", "csign"}), One({"C", "c"})>> >> >>

voltage_patterns == <<
    << <<One({"num"}), One({"V"})>> >>,
    << <<One({"num"}), One(SEP), One({"num"}), One({"V"})>> >>,
    << <<One({"cut-off"}), Opt({"of"}), Opt({":"}), One({"num"}), One({"V"})>> >>,
    << <<One({"upper limit", "lower limit"}), Opt({"of"}), Opt({":"}),
         One({"num"}), One({"V"})>> >>,
    << <<One({"voltage window"}), Opt({"of"}), Opt({":"}),
         One({"num"}), One(SEP), One({"num"}), One({"V"})>> >> >>

\* the three explicit searches of extract_crates
charge_discharge_pattern ==
    << <<One({"num"}), One({"C", "c"}), One({"charge"}), Opt({"and", ","}),
         One({"num"}), One({"C", "c"}), One({"discharge"})>> >>

\* also the search of line 401, which is the same pattern over tokens
asymmetric_pattern ==
    << <<One({"num"}), One({"C", "c"}), One({"/", "-"}), One({"num"}), One(CSTART)>> >>

constant_current_pattern ==
    << <<One({"constant current"}), Opt({"of"}), One({"num"}), One(CSTART)>> >>

crate_patterns == <<
    << <<One({"num"}), One({"C", "c"})>>, <<One(CEND), One({"/", "-"}), One({"num"})>> >>,
    asymmetric_pattern,
    charge_discharge_pattern,
    << <<One({"num"}), One({"mA/g"})>> >>,
    constant_current_pattern >>

retention_pattern ==
    << <<One({"capacity retention"}), Opt({"of"}), Opt({":"}), One({"num"}), One({"%"})>>,
       <<One({"num"}), One({"%"}), One({"capacity retention"})>> >>

capacity_patterns == <<
    << <<One({"num"}), One({"mAh/g"})>> >>,
    << <<One({"capacity"}), Opt({"of"}), Opt({":"}), One({"num"}), One({"mAh/g"})>> >>,
    retention_pattern >>

cycle_patterns == <<
    << <<One({"for", "after"}), One({"int"}), One({"cycles", "cycle life"})>>,
       <<One({"num"}), One({"cycles", "cycle life"})>>,
       <<One({"cycles"}), Opt({"of"}), Opt({":"}), One({"num"})>> >>,
    << <<One({"cycle life"}), Opt({"of"}), Opt({":"}), One({"num"}),
         Opt({"cycles", "cycle life"})>> >> >>

\* material_patterns and binder_patterns: per pattern, the token kinds it
\* matches.  A formula such as LiFePO4 is the tokens "LiFePO", 4: the third
\* cathode pattern stops before the digit.  A pattern none of whose strings
\* is a token of the model is the empty set.  The third cathode pattern,
\* Li(?:thium)?(?:Ni|Co|Mn|Al|Fe|P|O|S)+ without regard to case, also matches
\* the word "life".
cathode_patterns == << {}, {}, {"LiFePO", "cycle life"}, {"LFP"}, {"LMO"}, {} >>

anode_patterns == << {"graphite", "carbon", "MCMB"}, {}, {"Li metal"}, {"LTO"} >>

binder_patterns == << {"PVDF"}, {"CMC"}, {"SBR"}, {"PAA"}, {"PTFE"} >>

(***************************************************************************)
(* The extractors.  Each is given a text and works on its tokens.          *)
(***************************************************************************)
\* the first value of a sequence of values that is not None
RECURSIVE FirstNotNone(_)
FirstNotNone(vs) ==
    IF vs = <<>> THEN None
    ELSE IF ~IsNone(Head(vs)) THEN Head(vs)
    ELSE FirstNotNone(Tail(vs))

\* match.group() of each of the matches ms
GroupsOf(text, ms) == [i \in 1..Len(ms) |-> Group(text, ms[i])]

\* match.group() of every match of every pattern, in the order the nested
\* loops "for pattern ... for match in re.finditer" visit them
RECURSIVE AllGroups(_, _)
AllGroups(pats, text) ==
    IF pats = <<>> THEN <<>>
    ELSE GroupsOf(text, FindIterFrom(Head(pats), text, 1)) \o AllGroups(Tail(pats), text)

\* re.findall(r'(?:-|minus)(\d+\.?\d*)', g): the numbers that follow a dash
NegNumbers(g) ==
    LET idx == {i \in 2..Len(g) : g[i].k = "num" /\ g[i - 1].k = "-"}
    IN  SelectSeq([i \in 1..Len(g) |-> IF i \in idx THEN g[i] ELSE W("ws")],
                  LAMBDA t : t.k = "num")

\* the body of the inner loop of extract_temperature for one match
TemperatureOfGroup(g) ==
    IF HasKind(g, {"room temperature", "RT"}) THEN NumV(Rat(25, 1))
    ELSE IF HasRange(g) /\ Len(Numbers(g)) >= 2
    THEN NumV(RatMean(Float(Numbers(g)[1]), Float(Numbers(g)[2])))
    ELSE IF HasKind(g, {"-"}) /\ NegNumbers(g) # <<>>
    THEN NumV(RatNeg(Float(NegNumbers(g)[1])))
    ELSE IF Numbers(g) # <<>> THEN NumV(Float(Numbers(g)[1]))
    ELSE None

\* the value the two loops return for the groups gs of the matches
TemperatureOfGroups(gs) ==
    FirstNotNone([i \in 1..Len(gs) |-> TemperatureOfGroup(gs[i])])

extract_temperature(text) ==
    TemperatureOfGroups(AllGroups(temperature_patterns, Squeeze(text)))

\* group(1) of a match of a pattern with one number
Group1(text, m) == Numbers(Group(text, m))[1]

\* float(match.group(1)) if match else None (lines 193-197)
ExplicitLimit(text, m) ==
    IF m.start # 0 THEN NumV(Float(Group1(text, m))) ELSE None

\* the first of the groups gs, from index i on, that holds a range and two
\* numbers sets the result to the smaller and the larger of the first two and
\* ends the inner loop (lines 202-209)
RECURSIVE VoltageRangeOfGroups(_, _, _)
VoltageRangeOfGroups(gs, i, r) ==
    IF i > Len(gs) THEN r
    ELSE IF HasRange(gs[i]) /\ Len(Numbers(gs[i])) >= 2
    THEN [lower |-> NumV(RatMin(Float(Numbers(gs[i])[1]), Float(Numbers(gs[i])[2]))),
          upper |-> NumV(RatMax(Float(Numbers(gs[i])[1]), Float(Numbers(gs[i])[2])))]
    ELSE VoltageRangeOfGroups(gs, i + 1, r)

\* the loop over voltage_patterns: result after the patterns pats, from r
RECURSIVE VoltageRangeLoop(_, _, _)
VoltageRangeLoop(pats, text, r) ==
    IF pats = <<>> THEN r
    ELSE VoltageRangeLoop(
            Tail(pats), text,
            VoltageRangeOfGroups(GroupsOf(text, FindIterFrom(Head(pats), text, 1)), 1, r))

\* lines 212-218
CutoffLimit(text, result, cutoff_match) ==
    IF cutoff_match.start # 0 /\ ~Truthy(result.lower)
    THEN [result EXCEPT !.lower = NumV(Float(Group1(text, cutoff_match)))]
    ELSE result

\* the explicit searches of lines 186-191 and 212-214, for their keyword
LimitPattern(keyword) ==
    << <<One({keyword}), Opt({"of"}), Opt({":"}), One({"num"}), One({"V", "voltage window"})>> >>

\* extract_voltage_limits on the text t without its white space
VoltageLimitsOf(t) ==
    CutoffLimit(
        t,
        VoltageRangeLoop(
            voltage_patterns, t,
            [lower |-> ExplicitLimit(t, SearchFrom(LimitPattern("lower limit"), t, 1)),
             upper |-> ExplicitLimit(t, SearchFrom(LimitPattern("upper limit"), t, 1))]),
        SearchFrom(LimitPattern("cut-off"), t, 1))

extract_voltage_limits(text) == VoltageLimitsOf(Squeeze(text))

\* 1.0 / x, for x # 0
RatInv(a) == Rat(a.d, a.n)

CrateResult(raised, charge, discharge) ==
    [raised |-> raised, charge |-> charge, discharge |-> discharge]

\* charge and discharge are the same rate
SameRate(rate) == CrateResult(FALSE, rate, rate)

\* lines 232-233 and 241-242 for the numbers g of the match
TwoRates(g) == CrateResult(FALSE, NumV(Float(g[1])), NumV(Float(g[2])))

\* lines 259-273 for the match.group() g and the match denominator in it:
\* 1.0 / float(denominator.group(1)) for the C/n format, the first number
\* otherwise; [returns |-> whether the function returns here, r |-> its result]
CrateOfDenominator(g, denominator) ==
    IF HasKind(g, {"/"}) /\ g[1].k \in {"C", "CMC"} /\ denominator.start # 0
    THEN IF Float(Group1(g, denominator)).n = 0
         THEN [returns |-> TRUE, r |-> CrateResult(TRUE, None, None)]
         ELSE [returns |-> TRUE,
               r |-> SameRate(NumV(RatInv(Float(Group1(g, denominator)))))]
    ELSE IF Numbers(g) # <<>>
    THEN [returns |-> TRUE, r |-> SameRate(NumV(Float(Numbers(g)[1])))]
    ELSE [returns |-> FALSE, r |-> CrateResult(FALSE, None, None)]

\* the body of the loop over crate_patterns for one pattern that matched
CrateOfGroup(g) ==
    CrateOfDenominator(g, SearchFrom(<< <<One(CEND), One({"/", "-"}), One({"num"})>> >>, g, 1))

RECURSIVE CrateLoop(_, _)
RECURSIVE CrateLoopMatch(_, _, _)
CrateLoopMatch(pats, text, step) ==
    IF step.returns THEN step.r ELSE CrateLoop(Tail(pats), text)

CrateLoop(pats, text) ==
    IF pats = <<>> THEN CrateResult(FALSE, None, None)
    ELSE IF SearchFrom(Head(pats), text, 1).start # 0
    THEN CrateLoopMatch(pats, text, CrateOfGroup(Group(text, SearchFrom(Head(pats), text, 1))))
    ELSE CrateLoop(Tail(pats), text)

\* lines 228-275 for the three matches of the explicit forms
CratesOfMatches(t, charge_discharge_match, asymmetric_match, constant_current_match) ==
    IF charge_discharge_match.start # 0
    THEN TwoRates(Numbers(Group(t, charge_discharge_match)))
    ELSE IF asymmetric_match.start # 0
    THEN TwoRates(Numbers(Group(t, asymmetric_match)))
    ELSE IF constant_current_match.start # 0
    THEN SameRate(NumV(Float(Group1(t, constant_current_match))))
    ELSE CrateLoop(crate_patterns, t)

\* raised: the call ended in ZeroDivisionError (line 262)
extract_crates(text) ==
    CratesOfMatches(Squeeze(text),
                    SearchFrom(charge_discharge_pattern, Squeeze(text), 1),
                    SearchFrom(asymmetric_pattern, Squeeze(text), 1),
                    SearchFrom(constant_current_pattern, Squeeze(text), 1))

\* lines 289-291 for the match.group() g
CapacityOfGroup(g) == IF Numbers(g) # <<>> THEN NumV(Float(Numbers(g)[1])) ELSE None

RECURSIVE CapacityLoop(_, _)
RECURSIVE CapacityLoopMatch(_, _, _)
CapacityLoopMatch(pats, text, capacity) ==
    IF ~IsNone(capacity) THEN capacity ELSE CapacityLoop(Tail(pats), text)

CapacityLoop(pats, text) ==
    IF pats = <<>> THEN None
    ELSE IF SearchFrom(Head(pats), text, 1).start # 0
    THEN CapacityLoopMatch(pats, text,
                           CapacityOfGroup(Group(text, SearchFrom(Head(pats), text, 1))))
    ELSE CapacityLoop(Tail(pats), text)

extract_capacity(text) == CapacityLoop(capacity_patterns, Squeeze(text))

extract_capacity_retention(text) ==
    ExplicitLimit(Squeeze(text), SearchFrom(retention_pattern, Squeeze(text), 1))

\* the digits (\d+) captures of a number literal: the whole literal when it
\* is all digits; of a decimal literal the digits after the point when white
\* space must follow the capture, the digits before the point otherwise
\* (literals of the model have at most two decimals)
CapturedDigits(tok, followed) ==
    IF tok.d = 1 THEN tok.n
    ELSE IF ~followed THEN tok.n \div tok.d
    ELSE IF 10 % tok.d = 0 THEN ((tok.n * 10) \div tok.d) % 10
    ELSE ((tok.n * 100) \div tok.d) % 100

\* int(g) for the group g of a match of a cycle pattern
CycleOfGroup(g) ==
    LET i == CHOOSE x \in 1..Len(g) : g[x].k = "num"
        followed == /\ g[1].k # "cycle life" /\ i < Len(g)
                    /\ g[i + 1].k \in {"cycles", "cycle life"}
    IN  NumV(Rat(CapturedDigits(g[i], followed), 1))

\* a decimal literal before "cycles" is matched from its last digits on, so
\* the optional "cycles" of the cycle-life pattern is left out of the match
RECURSIVE CycleLoop(_, _)
CycleLoop(pats, text) ==
    IF pats = <<>> THEN None
    ELSE IF SearchFrom(Head(pats), text, 1).start # 0
    THEN CycleOfGroup(Group(text, SearchFrom(Head(pats), text, 1)))
    ELSE CycleLoop(Tail(pats), text)

extract_cycle_count(text) == CycleLoop(cycle_patterns, Squeeze(text))

\* the loop "for pattern ... re.search" of identify_material / identify_binder
RECURSIVE MaterialLoop(_, _)
MaterialLoop(pats, text) ==
    IF pats = <<>> THEN None
    ELSE LET ok == {i \in 1..Len(text) : text[i].k \in Head(pats)}
         IN  IF ok # {}
             THEN \* match.group().strip()
                  LET tok == text[CHOOSE i \in ok : \A j \in ok : i <= j]
                  IN  StrV(IF tok.k = "cycle life" THEN <<W("life")>> ELSE <<tok>>)
             ELSE MaterialLoop(Tail(pats), text)

identify_material(text, material_type) ==
    CASE material_type = "cathode" -> MaterialLoop(cathode_patterns, Squeeze(text))
      [] material_type = "anode" -> MaterialLoop(anode_patterns, Squeeze(text))
      [] OTHER -> None

identify_binder(text) == MaterialLoop(binder_patterns, Squeeze(text))

(***************************************************************************)
(* Records.  An item of json_data is a function from the keys it has to    *)
(* values.  The key of the temperature field is written without its degree *)
(* sign.                                                                   *)
(***************************************************************************)
Key ==
    [DOI |-> "DOI", Model |-> "Battery Model", Capacity |-> "DC Capacity (mAh/g)",
     Lower |-> "Lower Voltage Limit (V)", Upper |-> "Upper Voltage Limit (V)",
     Cathode |-> "Cathode Material", Anode |-> "Anode Material",
     Temperature |-> "Temperature (C)", Charge |-> "Charge Rate (C)",
     Discharge |-> "Discharge Rate (C)", Retention |-> "Capacity Retention (%)",
     Cycles |-> "Cycle Count", Binder |-> "Binder",
     Process |-> "Manufacturing Process", RawText |-> "raw_text"]

\* the keys of the output format of the extraction prompt (lines 755-768)
SchemaKeys ==
    {Key.DOI, Key.Model, Key.Capacity, Key.Lower, Key.Upper, Key.Cathode, Key.Anode,
     Key.Temperature, Key.Charge, Key.Discharge, Key.Retention, Key.Cycles, Key.Binder,
     Key.Process}

NumericKeys ==
    {Key.Temperature, Key.Lower, Key.Upper, Key.Charge, Key.Discharge, Key.Capacity,
     Key.Retention, Key.Cycles}

Has(item, k) == k \in DOMAIN item

\* item[k] = v
SetKey(item, k, v) ==
    [x \in (DOMAIN item) \cup {k} |-> IF x = k THEN v ELSE item[x]]

\* del item[k]
DelKey(item, k) == [x \in (DOMAIN item) \ {k} |-> item[x]]

\* a step of standardize_json_data on one item: the item, the keys it has
\* written from the full text so far, and whether an exception is in flight
Step(item, from_text, raised) ==
    [item |-> item, from_text |-> from_text, raised |-> raised]

\* item[k] = v when cond holds
SetIf(item, cond, k, v) == IF cond THEN SetKey(item, k, v) ELSE item

\* isinstance(item[key], str) and item[key] != "N/A", for a key of the item
IsText(item, key) == Has(item, key) /\ item[key].t = "str" /\ item[key] # NA

\* lines 350-357, and the same code at 424-431, 436-443, 448-455: extracted
\* is the value read in the field, extracted_full the one read in the text
StandardizeNumeric(st, full_text, key, extracted, extracted_full) ==
    IF ~IsNone(extracted)
    THEN [st EXCEPT !.item = SetKey(st.item, key, extracted)]
    ELSE IF full_text # <<>> /\ ~IsNone(extracted_full)
    THEN [st EXCEPT !.item = SetKey(st.item, key, extracted_full),
                    !.from_text = @ \cup {key}]
    ELSE st

\* lines 347-357
StandardizeTemperature(st, full_text) ==
    IF IsText(st.item, Key.Temperature)
    THEN StandardizeNumeric(st, full_text, Key.Temperature,
                            extract_temperature(st.item[Key.Temperature].s),
                            extract_temperature(full_text))
    ELSE st

\* lines 421-431
StandardizeCapacity(st, full_text) ==
    IF IsText(st.item, Key.Capacity)
    THEN StandardizeNumeric(st, full_text, Key.Capacity,
                            extract_capacity(st.item[Key.Capacity].s),
                            extract_capacity(full_text))
    ELSE st

\* lines 433-443
StandardizeRetention(st, full_text) ==
    IF IsText(st.item, Key.Retention)
    THEN StandardizeNumeric(st, full_text, Key.Retention,
                            extract_capacity_retention(st.item[Key.Retention].s),
                            extract_capacity_retention(full_text))
    ELSE st

\* lines 445-455
StandardizeCycles(st, full_text) ==
    IF IsText(st.item, Key.Cycles)
    THEN StandardizeNumeric(st, full_text, Key.Cycles,
                            extract_cycle_count(st.item[Key.Cycles].s),
                            extract_cycle_count(full_text))
    ELSE st

\* str(item[k]) + " " when the item has a truthy item[k], "" otherwise
TextOfField(item, k, prefix, suffix) ==
    IF Has(item, k) /\ Truthy(item[k])
    THEN prefix \o StrOf(item[k]) \o suffix
    ELSE <<>>

\* voltage_text of lines 362-366
VoltageText(item) ==
    TextOfField(item, Key.Lower, <<>>, <<W("ws")>>) \o TextOfField(item, Key.Upper, <<>>, <<W("ws")>>)

\* lines 370-374: the limits read in the full text
VoltageFromFullText(st, voltage_limits) ==
    [st EXCEPT !.item = SetIf(SetIf(st.item, ~IsNone(voltage_limits.lower),
                                    Key.Lower, voltage_limits.lower),
                              ~IsNone(voltage_limits.upper),
                              Key.Upper, voltage_limits.upper),
               !.from_text = @ \cup
                   {k \in {Key.Lower} : ~IsNone(voltage_limits.lower)} \cup
                   {k \in {Key.Upper} : ~IsNone(voltage_limits.upper)}]

\* lines 377-381: the limits read in the two fields
VoltageFromItem(st, voltage_limits) ==
    [st EXCEPT !.item = SetIf(SetIf(st.item,
                                    ~IsNone(voltage_limits.lower) /\ Has(st.item, Key.Lower),
                                    Key.Lower, voltage_limits.lower),
                              ~IsNone(voltage_limits.upper) /\ Has(st.item, Key.Upper),
                              Key.Upper, voltage_limits.upper)]

\* lines 369-381
VoltageOfText(st, full_text, voltage_text) ==
    IF /\ full_text # <<>>
       /\ \/ voltage_text = <<>>
          \/ Strip(voltage_text) = <<W("N/A"), W("ws"), W("N/A"), W("ws")>>
    THEN VoltageFromFullText(st, extract_voltage_limits(full_text))
    ELSE VoltageFromItem(st, extract_voltage_limits(voltage_text))

\* lines 360-381
StandardizeVoltage(st, full_text) ==
    IF ~(Has(st.item, Key.Lower) \/ Has(st.item, Key.Upper)) THEN st
    ELSE VoltageOfText(st, full_text, VoltageText(st.item))

\* re.search(r'(\d+\.?\d*)', s) and float(group(1)), lines 409-419
FirstNumber(item, k) ==
    IF IsText(item, k) /\ Numbers(item[k].s) # <<>>
    THEN SetKey(item, k, NumV(Float(Numbers(item[k].s)[1])))
    ELSE item

\* rate_text of lines 386-390
RateText(item) ==
    TextOfField(item, Key.Charge, <<W("charge:"), W("ws")>>, <<W("ws")>>)
        \o TextOfField(item, Key.Discharge, <<W("discharge:"), W("ws")>>, <<>>)

\* lines 393-398: the rates read in the full text
RatesFromFullText(st, crates) ==
    IF crates.raised THEN [st EXCEPT !.raised = TRUE]
    ELSE [st EXCEPT !.item = SetIf(SetIf(st.item,
                                         ~IsNone(crates.charge) /\ Has(st.item, Key.Charge),
                                         Key.Charge, crates.charge),
                                   ~IsNone(crates.discharge) /\ Has(st.item, Key.Discharge),
                                   Key.Discharge, crates.discharge),
                    !.from_text = @ \cup
                        {k \in {Key.Charge} :
                            ~IsNone(crates.charge) /\ Has(st.item, Key.Charge)} \cup
                        {k \in {Key.Discharge} :
                            ~IsNone(crates.discharge) /\ Has(st.item, Key.Discharge)}]

\* lines 403-406 for the two numbers g of asymmetric_match
AsymmetricRates(item, g) ==
    SetIf(SetIf(item, Has(item, Key.Charge), Key.Charge, NumV(Float(g[1]))),
          Has(item, Key.Discharge), Key.Discharge, NumV(Float(g[2])))

\* lines 401-419 on the rate text t without its white space
RatesFromItem(st, t, asymmetric_match) ==
    [st EXCEPT !.item =
        FirstNumber(
            FirstNumber(
                IF asymmetric_match.start # 0
                THEN AsymmetricRates(st.item, Numbers(Group(t, asymmetric_match)))
                ELSE st.item,
                Key.Charge),
            Key.Discharge)]

\* lines 392-419
RatesOfText(st, full_text, rate_text) ==
    IF full_text # <<>> /\ (rate_text = <<>> \/ HasKind(rate_text, {"N/A"}))
    THEN RatesFromFullText(st, extract_crates(full_text))
    ELSE RatesFromItem(st, Squeeze(rate_text),
                       SearchFrom(asymmetric_pattern, Squeeze(rate_text), 1))

\* lines 384-419
StandardizeRates(st, full_text) ==
    IF ~(Has(st.item, Key.Charge) \/ Has(st.item, Key.Discharge)) THEN st
    ELSE RatesOfText(st, full_text, RateText(st.item))

\* lines 458-462, 464-468 and 471-474
StandardizeCategorical(st, full_text, key, found) ==
    IF /\ Has(st.item, key)
       /\ (st.item[key] = NA \/ ~Truthy(st.item[key]))
       /\ full_text # <<>>
       /\ Truthy(found)
    THEN [st EXCEPT !.item = SetKey(st.item, key, found),
                    !.from_text = @ \cup {key}]
    ELSE st

\* lines 477-478
RemoveRawText(st) ==
    IF Has(st.item, Key.RawText)
    THEN [st EXCEPT !.item = DelKey(st.item, Key.RawText)]
    ELSE st

\* the blocks after the rates (lines 421-478); an exception in flight skips
\* them
StandardizeAfterRates(st, full_text) ==
    IF st.raised THEN st
    ELSE RemoveRawText(
            StandardizeCategorical(
                StandardizeCategorical(
                    StandardizeCategorical(
                        StandardizeCycles(
                            StandardizeRetention(
                                StandardizeCapacity(st, full_text),
                                full_text),
                            full_text),
                        full_text, Key.Cathode, identify_material(full_text, "cathode")),
                    full_text, Key.Anode, identify_material(full_text, "anode")),
                full_text, Key.Binder, identify_binder(full_text)))

\* the body of the loop of standardize_json_data for one item (lines 342-478)
StandardizeItem(item0, full_text) ==
    StandardizeAfterRates(
        StandardizeRates(
            StandardizeVoltage(
                StandardizeTemperature(
                    Step(IF full_text # <<>>
                         THEN SetKey(item0, Key.RawText, StrV(full_text))
                         ELSE item0,
                         {}, FALSE),
                    full_text),
                full_text),
            full_text),
        full_text)

\* standardize_json_data: the items are mutated in place, in order; an
\* exception leaves the list as it is at that point.
\*   data: the list after the call; from_text[i]: the keys of item i written
\*   from the full text; raised: the call ended in an exception
RECURSIVE StandardizeFrom(_, _, _)
RECURSIVE StandardizeNext(_, _, _, _)
\* item i is done and rest is the result for the items after it
StandardizeRest(i, st, rest) ==
    [data |-> [rest.data EXCEPT ![i] = st.item],
     from_text |-> [rest.from_text EXCEPT ![i] = st.from_text],
     raised |-> rest.raised]

StandardizeNext(json_data, full_text, i, st) ==
    IF st.raised
    THEN [data |-> [json_data EXCEPT ![i] = st.item],
          from_text |-> [j \in 1..Len(json_data) |-> IF j = i THEN st.from_text ELSE {}],
          raised |-> TRUE]
    ELSE StandardizeRest(i, st, StandardizeFrom(json_data, full_text, i + 1))

StandardizeFrom(json_data, full_text, i) ==
    IF i > Len(json_data)
    THEN [data |-> json_data, from_text |-> [j \in 1..Len(json_data) |-> {}],
          raised |-> FALSE]
    ELSE StandardizeNext(json_data, full_text, i,
                         StandardizeItem(json_data[i], full_text))

standardize_json_data(json_data, full_text) == StandardizeFrom(json_data, full_text, 1)

(***************************************************************************)
(* Model responses.  A chat-completion response is                         *)
(*   present      FALSE for Python's None                                  *)
(*   has_choices  the response has a non-empty choices list                *)
(*   text         choices[0].message.content of a classification answer,   *)
(*                as characters                                            *)
(*   fenced, payload, records                                              *)
(*                choices[0].message.content of an extraction answer: is   *)
(*                the JSON inside a ```json fence; is the JSON text        *)
(*                "invalid" (json.loads raises JSONDecodeError), "records" *)
(*                (a list of objects) or "other" (valid JSON that is not a *)
(*                list of objects); the list of objects                    *)
(*   usage        "full": usage with both token counts; "absent": no usage *)
(*                attribute, usage None or no prompt_tokens;               *)
(*                "no_completion": prompt_tokens but no completion_tokens  *)
(***************************************************************************)
Response(has_choices, text, fenced, payload, records, usage) ==
    [present |-> TRUE, has_choices |-> has_choices, text |-> text,
     fenced |-> fenced, payload |-> payload, records |-> records,
     usage |-> usage, prompt_tokens |-> 3, completion_tokens |-> 1]

NoResponse ==
    [present |-> FALSE, has_choices |-> FALSE, text |-> <<>>,
     fenced |-> FALSE, payload |-> "invalid", records |-> <<>>,
     usage |-> "absent", prompt_tokens |-> 0, completion_tokens |-> 0]

(***************************************************************************)
(* call_model_safely (lines 620-662).  The frame of a call:                *)
(*   pc        "idle", "running", "returned" or "raised"                   *)
(*   attempt   the loop variable                                           *)
(*   requests  client.chat.completions.create calls made                   *)
(*   outcome   what the last attempt gave: "none" before the first one,    *)
(*             then "exception", "no_choices" or "choices"                 *)
(*   slept     the time.sleep of the last attempt (0: it did not sleep)    *)
(*   response, duration   the returned pair                                *)
(***************************************************************************)
CallIdle ==
    [pc |-> "idle", stage |-> "none", max_retries |-> 0, attempt |-> 0,
     requests |-> 0, outcome |-> "none", slept |-> 0,
     response |-> NoResponse, duration |-> 0]

\* "return None, 0" (line 662)
ReturnNone(c) == [c EXCEPT !.pc = "returned", !.response = NoResponse, !.duration = 0]

\* entry of the function: "for attempt in range(max_retries)"
CallStart(stage, max_retries) ==
    LET c == [CallIdle EXCEPT !.stage = stage, !.max_retries = max_retries]
    IN  IF max_retries > 0 THEN [c EXCEPT !.pc = "running"] ELSE ReturnNone(c)

\* the end of an iteration that did not return: the next one, or line 662
LoopNext(c) ==
    IF c.attempt + 1 < c.max_retries
    THEN [c EXCEPT !.attempt = @ + 1]
    ELSE ReturnNone(c)

\* time.sleep(seconds)
Sleep(c, seconds) == [c EXCEPT !.slept = seconds]

\* an iteration whose handler lets the exception of the last attempt out
AttemptStepReraising(c, outcome, response, duration) ==
    LET c1 == [c EXCEPT !.requests = @ + 1, !.outcome = outcome, !.slept = 0]
    IN  CASE outcome = "choices" ->
                [c1 EXCEPT !.pc = "returned", !.response = response,
                           !.duration = duration]
          [] outcome = "no_choices" ->
                LoopNext(Sleep(c1, ShortWait))
          [] OTHER ->
                IF c.attempt < c.max_retries - 1
                THEN LoopNext(Sleep(c1, LongWait))
                ELSE [c1 EXCEPT !.pc = "raised"]

\* an iteration without the validation of line 645: it returns whatever
\* response it received
AttemptStepUnvalidated(c, outcome, response, duration) ==
    LET c1 == [c EXCEPT !.requests = @ + 1, !.outcome = outcome, !.slept = 0]
    IN  CASE outcome \in {"choices", "no_choices"} ->
                [c1 EXCEPT !.pc = "returned", !.response = response,
                           !.duration = duration]
          [] OTHER ->
                IF c.attempt < c.max_retries - 1
                THEN LoopNext(Sleep(c1, LongWait))
                ELSE LoopNext(c1)

\* one iteration of the loop (lines 622-659)
AttemptStep(c, outcome, response, duration) ==
    LET c1 == [c EXCEPT !.requests = @ + 1, !.outcome = outcome, !.slept = 0]
    IN  CASE outcome = "choices" ->
                [c1 EXCEPT !.pc = "returned", !.response = response,
                           !.duration = duration]
          [] outcome = "no_choices" ->
                LoopNext(Sleep(c1, ShortWait))
          [] OTHER ->
                IF c.attempt < c.max_retries - 1
                THEN LoopNext(Sleep(c1, LongWait))
                ELSE LoopNext(c1)

(***************************************************************************)
(* extract_abstract (lines 574-616).  Its text is a sequence of runs       *)
(* [c, n], n copies of the character c; a run longer than 1 is of white    *)
(* space or of "z", a letter that none of the keywords has.  An index into *)
(* the text is the index of a run.                                         *)
(***************************************************************************)
Run(c, n) == [c |-> c, n |-> n]

\* text[:n]
RECURSIVE TakeChars(_, _)
TakeChars(text, n) ==
    IF n = 0 \/ text = <<>> THEN <<>>
    ELSE IF Head(text).n >= n THEN <<Run(Head(text).c, n)>>
    ELSE <<Head(text)>> \o TakeChars(Tail(text), n - Head(text).n)

\* str.strip()
StripRuns(text) ==
    LET keep == {i \in 1..Len(text) : text[i].c \notin {" ", "\n", "\t"}}
    IN  IF keep = {} THEN <<>>
        ELSE LET lo == CHOOSE i \in keep : \A j \in keep : i <= j
                 hi == CHOOSE i \in keep : \A j \in keep : i >= j
             IN  SubSeq(text, lo, hi)

\* lines 576-579 and 582-585; as regular expressions, "." is any character
\* but the newline
abstract_keywords ==
    <<<<"a", "b", "s", "t", "r", "a", "c", "t">>,
      <<"s", "u", "m", "m", "a", "r", "y">>,
      <<"h", "i", "g", "h", "l", "i", "g", "h", "t", "s">>,
      <<"g", "r", "a", "p", "h", "i", "c", "a", "l", " ", "a", "b", "s", "t", "r", "a", "c", "t">>>>

end_keywords ==
    <<<<"i", "n", "t", "r", "o", "d", "u", "c", "t", "i", "o", "n">>,
      <<"k", "e", "y", "w", "o", "r", "d", "s">>,
      <<"1", ".">>, <<"i", ".">>,
      <<"e", "x", "p", "e", "r", "i", "m", "e", "n", "t", "a", "l">>>>

\* the keyword matches at run i, with re.IGNORECASE
KeywordAt(keyword, text, i) ==
    /\ i + Len(keyword) - 1 <= Len(text)
    /\ \A j \in 1..Len(keyword) :
            IF keyword[j] = "."
            THEN text[i + j - 1].c # "\n"
            ELSE text[i + j - 1].n = 1 /\ LowerChar(text[i + j - 1].c) = keyword[j]

\* [\s]*: the first run from i on that is not white space
RECURSIVE SkipSpace(_, _)
SkipSpace(text, i) ==
    IF i <= Len(text) /\ text[i].c \in {" ", "\n", "\t"}
    THEN SkipSpace(text, i + 1)
    ELSE i

\* match.end() of keyword[\s]*[:]? for the keyword matched at run i
MarkerEnd(keyword, text, i) ==
    LET j == SkipSpace(text, i + Len(keyword))
    IN  IF j <= Len(text) /\ text[j].c = ":" THEN j + 1 ELSE j

\* pattern.search(text) of line 591: the run where the leftmost match of the
\* keyword starts, 0 when there is none
RECURSIVE SearchKeyword(_, _, _)
SearchKeyword(keyword, text, from) ==
    IF from > Len(text) THEN 0
    ELSE IF KeywordAt(keyword, text, from) THEN from
    ELSE SearchKeyword(keyword, text, from + 1)

\* lines 588-594: start_index after the loop over keywords k, k + 1, ...;
\* 0 stands for -1
RECURSIVE StartIndex(_, _)
StartIndex(text, k) ==
    IF k > Len(abstract_keywords) THEN 0
    ELSE IF SearchKeyword(abstract_keywords[k], text, 1) # 0
    THEN MarkerEnd(abstract_keywords[k], text,
                   SearchKeyword(abstract_keywords[k], text, 1))
    ELSE StartIndex(text, k + 1)

\* pattern.search(text[start_index:]) of line 604, \n\s*keyword[\s]*[:]? : the
\* run where the leftmost match starts, 0 when there is none
RECURSIVE SearchEnd(_, _, _)
SearchEnd(keyword, text, from) ==
    IF from > Len(text) THEN 0
    ELSE IF text[from].c = "\n" /\ KeywordAt(keyword, text, SkipSpace(text, from + 1))
    THEN from
    ELSE SearchEnd(keyword, text, from + 1)

\* lines 601-607: end_index after the loop over the end keywords k, k + 1, ...
RECURSIVE EndIndex(_, _, _)
EndIndex(text, start_index, k) ==
    IF k > Len(end_keywords) THEN Len(text) + 1
    ELSE IF SearchEnd(end_keywords[k], text, start_index) # 0
    THEN SearchEnd(end_keywords[k], text, start_index)
    ELSE EndIndex(text, start_index, k + 1)

\* lines 601-616: the abstract for a start_index
AbstractFrom(text, start_index) ==
    TakeChars(StripRuns(SubSeq(text, start_index, EndIndex(text, start_index, 1) - 1)),
              AbstractLimit)

extract_abstract(text) ==
    IF StartIndex(text, 1) = 0
    THEN TakeChars(text, AbstractFallback)
    ELSE AbstractFrom(text, StartIndex(text, 1))

(***************************************************************************)
(* Stats (lines 498-518) and the places of process_pdf that update it.     *)
(***************************************************************************)
StatsInit ==
    [total_files |-> 0, processed_files |-> 0, battery_related_files |-> 0,
     successfully_extracted_files |-> 0,
     total_first_model_time |-> 0, total_first_model_input_tokens |-> 0,
     total_first_model_output_tokens |-> 0,
     total_second_model_time |-> 0, total_second_model_input_tokens |-> 0,
     total_second_model_output_tokens |-> 0,
     first_model_errors |-> 0, second_model_errors |-> 0, retry_successes |-> 0]

\* an unreadable document counted as an error of the first model
OnUnreadableCounted(s) ==
    [s EXCEPT !.first_model_errors = @ + 1, !.processed_files = @ + 1]

\* lines 683-686
OnUnreadable(s) == [s EXCEPT !.processed_files = @ + 1]

\* a classification failure that is not counted as an error
OnClassificationAbsentUncounted(s) == [s EXCEPT !.processed_files = @ + 1]

\* lines 710-714
OnClassificationAbsent(s) ==
    [s EXCEPT !.first_model_errors = @ + 1, !.processed_files = @ + 1]

\* lines 717-724: the try block stops at the first AttributeError
UpdateFirstModelStats(s, response, duration) ==
    [s EXCEPT !.total_first_model_time = @ + duration,
              !.total_first_model_input_tokens =
                  IF response.usage \in {"full", "no_completion"}
                  THEN @ + response.prompt_tokens ELSE @,
              !.total_first_model_output_tokens =
                  IF response.usage = "full" THEN @ + response.completion_tokens ELSE @]

\* a verdict rule that asks for the answer "no" itself
IsExactlyNo(is_battery_related) == is_battery_related = <<"n", "o">>

\* line 732: "no" in is_battery_related
IsNegative(is_battery_related) == StrContains(is_battery_related, <<"n", "o">>)

\* lines 732-735
OnNegativeVerdict(s) == [s EXCEPT !.processed_files = @ + 1]

\* a positive verdict that is not counted
OnBatteryRelatedUncounted(s) == s

\* line 738
OnBatteryRelated(s) == [s EXCEPT !.battery_related_files = @ + 1]

\* lines 788-792
OnExtractionAbsent(s) ==
    [s EXCEPT !.second_model_errors = @ + 1, !.processed_files = @ + 1]

\* lines 795-802
UpdateSecondModelStats(s, response, duration) ==
    [s EXCEPT !.total_second_model_time = @ + duration,
              !.total_second_model_input_tokens =
                  IF response.usage \in {"full", "no_completion"}
                  THEN @ + response.prompt_tokens ELSE @,
              !.total_second_model_output_tokens =
                  IF response.usage = "full" THEN @ + response.completion_tokens ELSE @]

\* a parse failure counted with the exceptions of the outer handler
OnJsonDecodeErrorAsException(s) ==
    [s EXCEPT !.first_model_errors = @ + 1, !.processed_files = @ + 1]

\* lines 831-834 and 842
OnJsonDecodeError(s) ==
    [s EXCEPT !.second_model_errors = @ + 1, !.processed_files = @ + 1]

\* an outer handler that returns before the count of line 842
OnExceptionUncounted(s) == [s EXCEPT !.first_model_errors = @ + 1]

\* lines 836-839 and 842
OnException(s) ==
    [s EXCEPT !.first_model_errors = @ + 1, !.processed_files = @ + 1]

\* lines 829 and 842
OnSuccess(s) ==
    [s EXCEPT !.successfully_extracted_files = @ + 1, !.processed_files = @ + 1]

\* lines 811-816: the JSON of the answer (of the fenced block when there is
\* one, of the whole trimmed answer otherwise), parsed and standardized.
\*   decode_error: json.loads raised JSONDecodeError
\*   raised: another exception (standardize_json_data on JSON that is not a
\*   list of objects raises TypeError; ZeroDivisionError of extract_crates)
ParseAndStandardize(response, pdf_text) ==
    IF response.payload = "invalid"
    THEN [decode_error |-> TRUE, raised |-> FALSE, data |-> <<>>]
    ELSE IF response.payload = "other"
    THEN [decode_error |-> FALSE, raised |-> TRUE, data |-> <<>>]
    ELSE LET r == standardize_json_data(response.records, pdf_text)
         IN  [decode_error |-> FALSE, raised |-> r.raised, data |-> r.data]

(***************************************************************************)
(* Inputs of the model: document texts, model answers, records.            *)
(***************************************************************************)
\* "... 2.5-4.2 V 25 deg C, 1C charge, 2C discharge 150 mAh/g capacity
\*  retention of 85% after 100 cycles LiFePO4 graphite PVDF"
RichText ==
    <<W("word"), Num(5, 2), W("-"), Num(21, 5), W("V"),
      Num(25, 1), W("deg"), W("C"), W(","),
      Num(1, 1), W("C"), W("charge"), W(","), Num(2, 1), W("C"), W("discharge"),
      Num(150, 1), W("mAh/g"),
      W("capacity retention"), W("of"), Num(85, 1), W("%"),
      W("after"), Num(100, 1), W("cycles"),
      W("LiFePO"), Num(4, 1), W("graphite"), W("PVDF")>>

\* "... at C/0"
ZeroRateText == <<W("word"), W("C"), W("/"), Num(0, 1)>>

\* the record of the extraction prompt with every field "N/A"
SentinelRecord == [k \in SchemaKeys |-> NA]

\* what a reader returns: None, or a text (possibly empty or white space)
ReaderResults ==
    {[none |-> TRUE, text |-> <<>>]}
        \cup {[none |-> FALSE, text |-> t] : t \in {<<>>, <<W("ws")>>, RichText, ZeroRateText}}

\* pdf_text is None or not pdf_text.strip()  (line 678); for a text,
\* not pdf_text or not pdf_text.strip()  (line 683) is the same test
Unreadable(r) == r.none \/ Strip(r.text) = <<>>

\* answers of the classification model: the text and the usage report
ClassificationResponses ==
    { Response(TRUE, <<"Y", "e", "s">>, FALSE, "invalid", <<>>, "full"),
      Response(TRUE, <<"\n", "Y", "E", "S", ".">>, FALSE, "invalid", <<>>, "absent"),
      Response(TRUE, <<" ", "N", "O", ".", "\n">>, FALSE, "invalid", <<>>, "no_completion"),
      Response(TRUE, <<"U", "n", "k", "n", "o", "w", "n">>, FALSE, "invalid", <<>>, "full") }

\* a record with one key
DoiRecord == (Key.DOI :> StrV(<<W("word")>>))

\* answers of the extraction model: a JSON list of records, text that is
\* not JSON, or JSON that is not a list of objects; with or without the
\* fenced block
ExtractionResponses ==
    { Response(TRUE, <<>>, TRUE, "records", <<SentinelRecord>>, "full"),
      Response(TRUE, <<>>, FALSE, "records", <<[SentinelRecord EXCEPT
                                                ![Key.Temperature] =
                                                    StrV(<<Num(25, 1), W("-"), Num(30, 1)>>)],
                                              DoiRecord>>, "absent"),
      Response(TRUE, <<>>, TRUE, "invalid", <<>>, "no_completion"),
      Response(TRUE, <<>>, FALSE, "invalid", <<>>, "full"),
      Response(TRUE, <<>>, TRUE, "other", <<>>, "absent") }

(***************************************************************************)
(* process_pdf (lines 666-842).  The frame of a call:                      *)
(*   pc       "idle" (not running), "classifying" or "extracting" (waiting *)
(*            for the model call of that stage)                            *)
(*   readers  what the readers consulted returned, in order: first        *)
(*            read_pdf_with_pymupdf, then read_pdf_with_pypdf2              *)
(*   cls, ext what the model call of the stage returned: "unset",          *)
(*            "absent" or "response"                                       *)
(*   calls    the stages call_model_safely was called for, in order        *)
(*   verdict  is_battery_related                                           *)
(*   usage    the usage report of the responses received, in order        *)
(*   parse    "unset", "decode_error", "raised", "write_failed", "written" *)
(*   written  the records written to the document's file                   *)
(*   done     the call has returned                                        *)
(***************************************************************************)
DocIdle ==
    [pc |-> "idle", pdf_text |-> <<>>, readers |-> <<>>,
     calls |-> <<>>, cls |-> "unset", verdict |-> <<>>, usage |-> <<>>,
     ext |-> "unset", parse |-> "unset", written |-> <<>>,
     done |-> FALSE]

\* the frame when the call returns
Returned(d) == [d EXCEPT !.pc = "idle", !.pdf_text = <<>>, !.done = TRUE]

\* the files of the output folder: the record files, by the index of their
\* document, and the summary of print_stats
OutputInit == [files |-> {}, summary |-> FALSE]

\* the frame of a call of an extractor: pc is "idle", "called", "returned"
\* or "raised"; fn the function called, text its argument, result its result
ExtIdle == [pc |-> "idle", fn |-> "none", text |-> <<>>, result |-> <<>>]

\* the frame of a call of standardize_json_data: pc is "idle", "called",
\* "returned" or "raised", and "returned again" or "raised again" for a
\* second call on the list the first call returned; json_data and full_text
\* are the arguments as passed to the first call, data is the list after the
\* last call, previous the list the first call returned once a second call
\* is made, from_text[i] the keys of item i that the last call wrote from
\* the full text
StdIdle ==
    [pc |-> "idle", json_data |-> <<>>, full_text |-> <<>>,
     data |-> <<>>, previous |-> <<>>, from_text |-> <<>>]

\* lines 949-958: list the folder; an empty folder ends main at once
MainListFiles ==
    /\ main_pc = "start"
    /\ \E n \in 0..MaxDocs :
        /\ stats' = [stats EXCEPT !.total_files = n]
        /\ main_pc' = IF n = 0 THEN "done" ELSE "loop"
    /\ pdf_index' = 1
    /\ UNCHANGED <<stats0, doc, call, output, std, ext>>

\* lines 961-964 and 666-707: the loop calls process_pdf, which reads the
\* document and either skips it or starts the classification call; the
\* secondary reader gives None, an empty or blank text, or one readable text
ProcessPdfRead ==
    /\ main_pc = "loop"
    /\ doc.pc = "idle"
    /\ pdf_index <= stats.total_files
    /\ stats0' = stats
    /\ \E primary \in ReaderResults,
          secondary \in ReaderResults \ {[none |-> FALSE, text |-> ZeroRateText]} :
        LET fallback == Unreadable(primary)
            pdf_text == IF fallback THEN secondary ELSE primary
            d == [DocIdle EXCEPT !.readers = IF fallback
                                             THEN <<primary, secondary>>
                                             ELSE <<primary>>]
        IN  IF Unreadable(pdf_text)
            THEN /\ stats' = OnUnreadable(stats)
                 /\ doc' = Returned(d)
                 /\ pdf_index' = pdf_index + 1
                 /\ UNCHANGED call
            ELSE /\ doc' = [d EXCEPT !.pc = "classifying", !.pdf_text = pdf_text.text,
                                     !.calls = Append(@, "classification")]
                 /\ call' = CallStart("classification", DefaultMaxRetries)
                 /\ UNCHANGED <<stats, pdf_index>>
    /\ UNCHANGED <<main_pc, output, std, ext>>

\* one attempt of the running call_model_safely
CallAttempt ==
    /\ call.pc = "running"
    /\ \E outcome \in {"exception", "no_choices", "choices"},
          r \in IF call.stage = "extraction"
                THEN ExtractionResponses ELSE ClassificationResponses,
          t \in {2} :
        call' = AttemptStep(call, outcome,
                            CASE outcome = "choices" -> r
                              [] outcome = "no_choices" -> [r EXCEPT !.has_choices = FALSE]
                              [] OTHER -> NoResponse,
                            t)
    /\ UNCHANGED <<main_pc, pdf_index, stats, stats0, doc, output, std, ext>>

\* lines 709-785: the classification call has returned
ClassificationReturn ==
    /\ doc.pc = "classifying"
    /\ call.pc = "returned"
    /\ LET d == doc IN
       IF ~call.response.present
       THEN /\ stats' = OnClassificationAbsent(stats)
            /\ doc' = Returned([d EXCEPT !.cls = "absent"])
            /\ pdf_index' = pdf_index + 1
            /\ call' = CallIdle
       ELSE LET s1 == UpdateFirstModelStats(stats, call.response, call.duration)
                is_battery_related == StrLower(StrStrip(call.response.text))
                d1 == [d EXCEPT !.cls = "response", !.verdict = is_battery_related,
                                !.usage = Append(@, call.response.usage)]
            IN  IF IsNegative(is_battery_related)
                THEN /\ stats' = OnNegativeVerdict(s1)
                     /\ doc' = Returned(d1)
                     /\ pdf_index' = pdf_index + 1
                     /\ call' = CallIdle
                ELSE /\ stats' = OnBatteryRelated(s1)
                     /\ doc' = [d1 EXCEPT !.pc = "extracting",
                                          !.calls = Append(@, "extraction")]
                     /\ call' = CallStart("extraction", DefaultMaxRetries)
                     /\ UNCHANGED pdf_index
    /\ UNCHANGED <<main_pc, stats0, output, std, ext>>

\* lines 787-842: the extraction call has returned
ExtractionReturn ==
    /\ doc.pc = "extracting"
    /\ call.pc = "returned"
    /\ call' = CallIdle
    /\ pdf_index' = pdf_index + 1
    /\ LET d == doc IN
       IF ~call.response.present
       THEN /\ stats' = OnExtractionAbsent(stats)
            /\ doc' = Returned([d EXCEPT !.ext = "absent"])
            /\ UNCHANGED output
       ELSE LET s1 == UpdateSecondModelStats(stats, call.response, call.duration)
                d1 == [d EXCEPT !.ext = "response",
                                !.usage = Append(@, call.response.usage)]
                r == ParseAndStandardize(call.response, doc.pdf_text)
            IN  IF r.decode_error
                THEN /\ stats' = OnJsonDecodeError(s1)
                     /\ doc' = Returned([d1 EXCEPT !.parse = "decode_error"])
                     /\ UNCHANGED output
                ELSE IF r.raised
                THEN /\ stats' = OnException(s1)
                     /\ doc' = Returned([d1 EXCEPT !.parse = "raised"])
                     /\ UNCHANGED output
                ELSE \E write_ok \in BOOLEAN :
                        IF write_ok
                        THEN /\ stats' = OnSuccess(s1)
                             /\ doc' = Returned([d1 EXCEPT !.parse = "written",
                                                           !.written = r.data])
                             /\ output' = [output EXCEPT !.files = @ \cup {pdf_index}]
                        ELSE /\ stats' = OnException(s1)
                             /\ doc' = Returned([d1 EXCEPT !.parse = "write_failed"])
                             /\ UNCHANGED output
    /\ UNCHANGED <<main_pc, stats0, std, ext>>

\* lines 966-969: after the loop, print_stats
PrintStats ==
    /\ main_pc = "loop"
    /\ doc.pc = "idle"
    /\ pdf_index > stats.total_files
    /\ output' = [output EXCEPT !.summary = TRUE]
    /\ main_pc' = "done"
    /\ UNCHANGED <<pdf_index, stats, stats0, doc, call, std, ext>>

Init ==
    /\ main_pc = "start"
    /\ pdf_index = 1
    /\ stats = StatsInit
    /\ stats0 = StatsInit
    /\ doc = DocIdle
    /\ call = CallIdle
    /\ output = OutputInit
    /\ std = StdIdle
    /\ ext = ExtIdle

Next ==
    \/ MainListFiles
    \/ ProcessPdfRead
    \/ CallAttempt
    \/ ClassificationReturn
    \/ ExtractionReturn
    \/ PrintStats

\* a run of main
Spec == Init /\ [][Next]_vars

(***************************************************************************)
(* call_model_safely on its own, for every max_retries up to the bound.    *)
(***************************************************************************)
InitCall ==
    /\ main_pc = "idle"
    /\ pdf_index = 1
    /\ stats = StatsInit
    /\ stats0 = StatsInit
    /\ doc = DocIdle
    /\ output = OutputInit
    /\ std = StdIdle
    /\ ext = ExtIdle
    /\ \E stage \in {"classification", "extraction"}, max_retries \in 0..MaxRetriesBound :
        call = CallStart(stage, max_retries)

SpecCall == InitCall /\ [][CallAttempt]_vars

(***************************************************************************)
(* standardize_json_data on its own: the records and the full texts.       *)
(***************************************************************************)
Text25 == <<Num(25, 1)>>

\* values a model gives for the field k: the sentinel, null, the empty
\* string, a word, numbers, and strings of the field's kind
FieldValues(k) ==
    {NA, None, StrV(<<>>), StrV(<<W("word")>>), NumV(Rat(0, 1)), NumV(Rat(1, 2))}
    \cup {StrV(t) : t \in
            CASE k = Key.Temperature ->
                    {Text25, <<Num(25, 1), W("-"), Num(30, 1)>>,
                     <<Num(25, 1), W("deg"), W("C")>>}
              [] k \in {Key.Lower, Key.Upper} -> {<<Num(5, 2)>>, <<Num(5, 2), W("V")>>}
              [] k \in {Key.Charge, Key.Discharge} ->
                    {<<Num(1, 2), W("C")>>, <<Num(0, 1), W("C")>>,
                     <<Num(1, 1), W("C"), W("/"), Num(2, 1), W("C")>>}
              [] k = Key.Capacity -> {Text25, <<Num(150, 1), W("mAh/g")>>}
              [] k = Key.Retention -> {Text25, <<Num(85, 1), W("%")>>}
              [] k = Key.Cycles -> {Text25, <<Num(100, 1), W("cycles")>>}
              [] OTHER -> {<<W("LFP")>>}}

\* the fields standardize_json_data works on
StandardizedKeys == NumericKeys \cup {Key.Cathode, Key.Anode, Key.Binder}

\* records: all fields "N/A" but one; the two voltage limits, or the two
\* rates, given together; records that lack keys
StdRecords ==
    UNION {{[SentinelRecord EXCEPT ![k] = v] : v \in FieldValues(k)} : k \in StandardizedKeys}
    \cup {[SentinelRecord EXCEPT ![Key.Lower] = v, ![Key.Upper] = w] :
            v \in FieldValues(Key.Lower), w \in FieldValues(Key.Upper)}
    \cup {[SentinelRecord EXCEPT ![Key.Charge] = v, ![Key.Discharge] = w] :
            v \in FieldValues(Key.Charge), w \in FieldValues(Key.Discharge)}
    \cup {DoiRecord, DelKey(SentinelRecord, Key.Upper), DelKey(SentinelRecord, Key.Charge)}

InitStd ==
    /\ main_pc = "idle"
    /\ pdf_index = 1
    /\ stats = StatsInit
    /\ stats0 = StatsInit
    /\ doc = DocIdle
    /\ call = CallIdle
    /\ output = OutputInit
    /\ ext = ExtIdle
    /\ \E r \in StdRecords, full_text \in
            {<<>>, RichText, ZeroRateText,
            \* a text none of the patterns matches
            <<W("word")>>,
            \* "... at C/2"
            <<W("word"), W("C"), W("/"), Num(2, 1)>>,
            \* "4.2 to 2.5 V, cut-off 3 V"
            <<Num(21, 5), W("to"), Num(5, 2), W("V"), W(","), W("cut-off"), Num(3, 1), W("V")>>} :
        \E json_data \in {<<r>>, <<DoiRecord, r>>} :
            std = [StdIdle EXCEPT !.pc = "called", !.json_data = json_data,
                                  !.full_text = full_text]

\* the call runs to its end
Standardize ==
    /\ std.pc = "called"
    /\ LET r == standardize_json_data(std.json_data, std.full_text)
       IN  std' = [std EXCEPT !.pc = IF r.raised THEN "raised" ELSE "returned",
                              !.data = r.data, !.from_text = r.from_text]
    /\ UNCHANGED <<main_pc, pdf_index, stats, stats0, doc, call, output, ext>>

\* the caller passes the returned list to standardize_json_data once more,
\* with the same full text
StandardizeAgain ==
    /\ std.pc = "returned"
    /\ LET r == standardize_json_data(std.data, std.full_text)
       IN  std' = [std EXCEPT !.pc = IF r.raised THEN "raised again"
                                     ELSE "returned again",
                              !.previous = std.data,
                              !.data = r.data, !.from_text = r.from_text]
    /\ UNCHANGED <<main_pc, pdf_index, stats, stats0, doc, call, output, ext>>

NextStd ==
    \/ Standardize
    \/ StandardizeAgain

SpecStd == InitStd /\ [][NextStd]_vars

(***************************************************************************)
(* The extractors on their own: each is called once on a text made of at   *)
(* most MaxPhrases phrases of the kind it looks for.                       *)
(***************************************************************************)
\* the texts made of at most n of the phrases, one after the other
RECURSIVE PhraseTexts(_, _)
PhraseTexts(phrases, n) ==
    IF n = 0 THEN {<<>>}
    ELSE PhraseTexts(phrases, n - 1)
            \cup {t \o p : t \in PhraseTexts(phrases, n - 1), p \in phrases}

\* the phrases the texts given to the extractor fn are made of
Phrases(fn) ==
    CASE fn = "extract_voltage_limits" ->
        \* "4.2 to 2.5 V", "2.5-4.2 V", "lower limit 2.5 V", "lower limit 4.2 V",
        \* "upper limit 2 V", "cut-off 3 V", "3 V", a word
        {<<Num(21, 5), W("to"), Num(5, 2), W("V")>>,
         <<Num(5, 2), W("-"), Num(21, 5), W("V")>>,
         <<W("lower limit"), Num(5, 2), W("V")>>,
         <<W("lower limit"), Num(21, 5), W("V")>>,
         <<W("upper limit"), Num(2, 1), W("V")>>,
         <<W("cut-off"), Num(3, 1), W("V")>>,
         <<Num(3, 1), W("V")>>,
         <<W("word")>>}
      [] fn = "extract_temperature" ->
        \* "X-Y deg C", "X~Y deg C", "X to Y deg C" for X, Y among 25, 30 and 2.5;
        \* "25 deg C", "room temperature", a word
        {<<x, W(sep), y, W("deg"), W("C")>> :
            x \in {Num(25, 1), Num(30, 1), Num(5, 2)},
            y \in {Num(25, 1), Num(30, 1), Num(5, 2)},
            sep \in {"-", "~", "to"}}
        \cup {<<Num(25, 1), W("deg"), W("C")>>, <<W("room temperature")>>, <<W("word")>>}
      [] fn = "extract_crates" ->
        \* "aC charge, bC discharge" for a, b among 0.2 and 1; "C/n" for n among 2,
        \* 10 and 0; each with a capital and with a small c; "1C", a word
        {<<a, W(c), W("charge"), W(","), b, W(c), W("discharge")>> :
            a \in {Num(1, 5), Num(1, 1)}, b \in {Num(1, 5), Num(1, 1)}, c \in {"C", "c"}}
        \cup {<<W(c), W("/"), n>> :
            c \in {"C", "c"}, n \in {Num(2, 1), Num(10, 1), Num(0, 1)}}
        \cup {<<Num(1, 1), W("C")>>, <<W("word")>>}
      [] OTHER ->
        \* "Abstract: zzz", "SUMMARY\nzzz", ...: a marker, a separator and a body;
        \* "\nIntroduction zzz", "\n1. zzz", "\nIn zzz": the line after an abstract;
        \* bodies without marker, around the lengths of lines 598 and 613
        {[i \in 1..Len(marker) |-> Run(marker[i], 1)] \o sep \o <<Run("z", n)>> :
            marker \in {<<"A", "b", "s", "t", "r", "a", "c", "t">>,
                        <<"S", "U", "M", "M", "A", "R", "Y">>,
                        <<"H", "i", "g", "h", "l", "i", "g", "h", "t", "s">>,
                        <<"G", "r", "a", "p", "h", "i", "c", "a", "l", " ", "a", "b", "s", "t", "r", "a", "c", "t">>},
            sep \in {<<Run(":", 1), Run(" ", 1)>>, <<Run("\n", 1)>>},
            n \in {10, AbstractLimit + 1}}
        \cup {<<Run("\n", 1)>> \o [i \in 1..Len(line) |-> Run(line[i], 1)] \o <<Run(" ", 1), Run("z", 10)>> :
                line \in {<<"I", "n", "t", "r", "o", "d", "u", "c", "t", "i", "o", "n">>,
                          <<"1", ".">>, <<"I", "n">>}}
        \cup {<<Run("z", n)>> : n \in {AbstractFallback - 1, AbstractFallback + 1}}
        \cup {<<Run(" ", 3)>>}

InitExtract ==
    /\ main_pc = "idle"
    /\ pdf_index = 1
    /\ stats = StatsInit
    /\ stats0 = StatsInit
    /\ doc = DocIdle
    /\ call = CallIdle
    /\ output = OutputInit
    /\ std = StdIdle
    /\ \E fn \in {"extract_voltage_limits", "extract_temperature",
                   "extract_crates", "extract_abstract"} :
        \E text \in PhraseTexts(Phrases(fn), MaxPhrases) :
            ext = [ExtIdle EXCEPT !.pc = "called", !.fn = fn, !.text = text]

\* the call of extract_voltage_limits returns
ExtractVoltageLimits ==
    /\ ext.pc = "called"
    /\ ext.fn = "extract_voltage_limits"
    /\ ext' = [ext EXCEPT !.pc = "returned",
                          !.result = extract_voltage_limits(ext.text)]
    /\ UNCHANGED <<main_pc, pdf_index, stats, stats0, doc, call, output, std>>

\* the call of extract_temperature returns
ExtractTemperature ==
    /\ ext.pc = "called"
    /\ ext.fn = "extract_temperature"
    /\ ext' = [ext EXCEPT !.pc = "returned",
                          !.result = extract_temperature(ext.text)]
    /\ UNCHANGED <<main_pc, pdf_index, stats, stats0, doc, call, output, std>>

\* the call of extract_crates returns, or raises ZeroDivisionError
ExtractCrates ==
    /\ ext.pc = "called"
    /\ ext.fn = "extract_crates"
    /\ ext' = [ext EXCEPT !.pc = IF extract_crates(ext.text).raised
                                 THEN "raised" ELSE "returned",
                          !.result = extract_crates(ext.text)]
    /\ UNCHANGED <<main_pc, pdf_index, stats, stats0, doc, call, output, std>>

\* the call of extract_abstract returns
ExtractAbstract ==
    /\ ext.pc = "called"
    /\ ext.fn = "extract_abstract"
    /\ ext' = [ext EXCEPT !.pc = "returned",
                          !.result = extract_abstract(ext.text)]
    /\ UNCHANGED <<main_pc, pdf_index, stats, stats0, doc, call, output, std>>

NextExtract ==
    \/ ExtractVoltageLimits
    \/ ExtractTemperature
    \/ ExtractCrates
    \/ ExtractAbstract

SpecExtract == InitExtract /\ [][NextExtract]_vars

(***************************************************************************)
(* Properties.                                                             *)
(***************************************************************************)
\* the index of the document whose process_pdf call returned last
LastIndex == pdf_index - 1

\* the run has not ended before its time: main is in its loop, ready for the
\* next document, or it has gone through all of them and printed the summary
RunGoesOn ==
    \/ main_pc = "loop" /\ doc.pc = "idle" /\ call.pc = "idle"
    \/ main_pc = "done" /\ pdf_index > stats.total_files /\ output.summary

\* the text has the letters "n", "o" next to each other
ContainsNo(text) ==
    \E i \in 1..(Len(text) - 1) : text[i] = "n" /\ text[i + 1] = "o"

\* C1: call_model_safely returns normally and never raises, whatever
\* max_retries >= 0 and the outcomes of the attempts are: it is running with
\* an attempt left to make, or it has returned; and when the last attempt
\* made (hence every attempt) gave no response with a choice, it has returned
\* the absent result (None, 0).
C1_NeverRaises ==
    /\ call.pc \in {"running", "returned"}
    /\ call.pc = "running" => call.attempt < call.max_retries
    /\ (call.pc = "returned" /\ call.outcome # "choices") =>
          /\ ~call.response.present
          /\ call.response = NoResponse
          /\ call.duration = 0

\* every attempt raised, the retries are used up, and the call has returned
C1_Witness ==
    /\ call.pc = "returned"
    /\ call.max_retries >= 2
    /\ call.requests = call.max_retries
    /\ call.outcome = "exception"
    /\ ~call.response.present

\* C2: a call sends at most max_retries requests, one per attempt; it stops
\* at the first attempt whose response has a choice and returns that
\* response; a response without choices is never the result, it only leads
\* to the next attempt while attempts remain.
C2_OneRequestPerAttempt ==
    /\ call.requests <= call.max_retries
    /\ call.pc = "running" => call.requests = call.attempt
    /\ call.outcome = "choices" =>
          /\ call.pc = "returned"
          /\ call.requests = call.attempt + 1
          /\ call.response.present /\ call.response.has_choices
    /\ call.pc = "returned" =>
          /\ call.response.present => call.response.has_choices
          /\ call.response.present <=> call.outcome = "choices"
          /\ ~call.response.present => call.requests = call.max_retries
    /\ (call.pc = "running" /\ call.outcome = "no_choices") => call.attempt >= 1

\* a response without choices, then, on the last attempt, one with a choice
C2_Witness ==
    /\ call.pc = "returned"
    /\ call.max_retries >= 2
    /\ call.requests = call.max_retries
    /\ call.outcome = "choices"
    /\ call.response.has_choices

\* C3: for a readable document whose classification call returned a response,
\* the extraction call is made if and only if the trimmed, lower-cased answer
\* does not contain "no"; with "no" in it the document ends with no
\* extraction call, no record file and battery_related_files unchanged; and
\* the extraction call never comes before the classification call.
C3_VerdictRule ==
    /\ doc.cls = "response" =>
          /\ (\E i \in DOMAIN doc.calls : doc.calls[i] = "extraction")
                <=> ~ContainsNo(doc.verdict)
          /\ ContainsNo(doc.verdict) =>
                /\ doc.done
                /\ doc.ext = "unset"
                /\ LastIndex \notin output.files
                /\ stats.battery_related_files = stats0.battery_related_files
    /\ doc.calls \in {<<>>, <<"classification">>, <<"classification", "extraction">>}
    /\ doc.pc = "extracting" => doc.cls = "response"
    /\ call.stage = "extraction" => doc.pc = "extracting"

\* the answer " NO.\n": trimmed and lower-cased it contains "no"
C3_Witness ==
    /\ doc.done
    /\ doc.cls = "response"
    /\ doc.verdict = <<"n", "o", ".">>
    /\ doc.calls = <<"classification">>

\* C4: when the classification call is absent, first_model_errors grows by
\* exactly 1, the document is treated as not in-domain (no extraction call,
\* no record file, battery_related_files and successfully_extracted_files
\* unchanged), and the run goes on with the next document.
C4_ClassificationAbsent ==
    doc.cls = "absent" =>
        /\ doc.done
        /\ stats.first_model_errors = stats0.first_model_errors + 1
        /\ doc.calls = <<"classification">>
        /\ doc.ext = "unset"
        /\ LastIndex \notin output.files
        /\ stats.battery_related_files = stats0.battery_related_files
        /\ stats.successfully_extracted_files = stats0.successfully_extracted_files
        /\ RunGoesOn

\* the classification call of a document is absent and a document follows
C4_Witness ==
    /\ doc.cls = "absent"
    /\ doc.done
    /\ main_pc = "loop"
    /\ pdf_index <= stats.total_files

\* C5: when the JSON of the extraction answer cannot be parsed,
\* second_model_errors grows by exactly 1, no record is emitted (no file,
\* successfully_extracted_files unchanged), the document still counts as
\* processed, and the run goes on with the next document.
C5_JsonParseFailure ==
    doc.parse = "decode_error" =>
        /\ doc.done
        /\ stats.second_model_errors = stats0.second_model_errors + 1
        /\ stats.first_model_errors = stats0.first_model_errors
        /\ LastIndex \notin output.files
        /\ doc.written = <<>>
        /\ stats.successfully_extracted_files = stats0.successfully_extracted_files
        /\ stats.processed_files = stats0.processed_files + 1
        /\ RunGoesOn

\* the extraction answer of a document is not JSON and a document follows
C5_Witness ==
    /\ doc.parse = "decode_error"
    /\ doc.done
    /\ main_pc = "loop"
    /\ pdf_index <= stats.total_files

\* C6: for every set of documents, the empty one included, the run that has
\* ended has visited every document and has emitted the summary.
C6_AlwaysSummary ==
    main_pc = "done" => (pdf_index > stats.total_files /\ output.summary)

\* the value the extractor of the field k finds in a text
ExtractedFor(k, text) ==
    CASE k = Key.Temperature -> extract_temperature(text)
      [] k = Key.Lower -> extract_voltage_limits(text).lower
      [] k = Key.Upper -> extract_voltage_limits(text).upper
      [] k = Key.Charge -> extract_crates(text).charge
      [] k = Key.Discharge -> extract_crates(text).discharge
      [] k = Key.Capacity -> extract_capacity(text)
      [] k = Key.Retention -> extract_capacity_retention(text)
      [] k = Key.Cycles -> extract_cycle_count(text)
      [] k = Key.Cathode -> identify_material(text, "cathode")
      [] k = Key.Anode -> identify_material(text, "anode")
      [] OTHER -> identify_binder(text)

\* the model value v of the field k is usable as it is: a number, or a
\* string other than the sentinel in which the extractor of k finds a value
ModelValueParses(k, v) ==
    \/ v.t = "num"
    \/ v.t = "str" /\ v # NA /\ ~IsNone(ExtractedFor(k, v.s))

\* the model value v of the field k is the sentinel or a string in which the
\* extractor of k finds nothing
ModelValueFails(k, v) ==
    \/ v = NA
    \/ v.t = "str" /\ IsNone(ExtractedFor(k, v.s))

\* C7: in standardize_json_data a model value that parses under the
\* extractor of its field is never replaced by a value taken from the full
\* text, for every field taken on its own (each rate, each voltage limit).
C7_ModelValuePreferred ==
    std.pc = "returned" =>
        \A i \in DOMAIN std.json_data : \A k \in std.from_text[i] :
            Has(std.json_data[i], k) => ~ModelValueParses(k, std.json_data[i][k])

\* C8: with a non-empty full text, a field whose model value is the sentinel
\* or fails the parsing of its family holds, after the call, the value the
\* extractor of the field finds in the full text, when it finds one.
C8_FallbackToFullText ==
    (std.pc = "returned" /\ std.full_text # <<>>) =>
        \A i \in DOMAIN std.json_data :
            \A k \in StandardizedKeys \cap DOMAIN std.json_data[i] :
                (/\ ModelValueFails(k, std.json_data[i][k])
                 /\ ~IsNone(ExtractedFor(k, std.full_text)))
                => std.data[i][k] = ExtractedFor(k, std.full_text)

\* C9: every record standardize_json_data returns has every key of the
\* record schema, also when the model left keys out.
C9_EveryKeyPresent ==
    std.pc = "returned" =>
        \A i \in DOMAIN std.data : SchemaKeys \subseteq DOMAIN std.data[i]

\* C10: after standardize_json_data every numeric field of every record
\* holds a number or the sentinel "N/A", never another string.
C10_NumericOrSentinel ==
    std.pc = "returned" =>
        \A i \in DOMAIN std.data :
            \A k \in NumericKeys \cap DOMAIN std.data[i] :
                std.data[i][k].t = "num" \/ std.data[i][k] = NA

\* C11: whenever extract_voltage_limits returns a lower and an upper limit,
\* the lower limit is at most the upper limit, whether the limits come from
\* a range, from the explicit lower/upper-limit phrasing or from a cut-off
\* phrase.
C11_LowerAtMostUpper ==
    (/\ ext.pc = "returned"
     /\ ext.fn = "extract_voltage_limits"
     /\ ~IsNone(ext.result.lower)
     /\ ~IsNone(ext.result.upper))
        => ext.result.lower.n * ext.result.upper.d
                <= ext.result.upper.n * ext.result.lower.d

\* the text is "X sep Y deg C" for numbers X, Y and sep among "-", "~", "to"
IsTemperatureRange(text) ==
    /\ Len(text) = 5
    /\ text[1].k = "num" /\ text[3].k = "num"
    /\ text[2].k \in {"-", "~", "to"}
    /\ text[4].k = "deg" /\ text[5].k = "C"

\* C12: for a temperature string "X-Y deg C", "X~Y deg C" or "X to Y deg C"
\* with non-negative X and Y, extract_temperature returns (X + Y) / 2.
C12_RangeGivesMean ==
    (/\ ext.pc = "returned"
     /\ ext.fn = "extract_temperature"
     /\ IsTemperatureRange(ext.text))
        => /\ ext.result.t = "num"
           /\ ext.result.n * 2 * ext.text[1].d * ext.text[3].d
                = ext.result.d * (ext.text[1].n * ext.text[3].d
                                    + ext.text[3].n * ext.text[1].d)

\* the text is "aC charge, bC discharge", in capital or small letters
IsChargeDischarge(text) ==
    /\ Len(text) = 7
    /\ text[1].k = "num" /\ text[2].k \in {"C", "c"} /\ text[3].k = "charge"
    /\ text[4].k = ","
    /\ text[5].k = "num" /\ text[6].k \in {"C", "c"} /\ text[7].k = "discharge"

\* the text is the bare notation "C/n", in capital or small letters, n > 0
IsFraction(text) ==
    /\ Len(text) = 3
    /\ text[1].k \in {"C", "c"} /\ text[2].k = "/"
    /\ text[3].k = "num" /\ text[3].n > 0

\* C13: extract_crates returns charge a and discharge b for "aC charge, bC
\* discharge", and the rate 1/n for charge and discharge for the bare
\* notation "C/n" with n > 0, whatever the case of the letters.
C13_CrateForms ==
    (ext.fn = "extract_crates" /\ ext.pc \in {"returned", "raised"})
        => /\ IsChargeDischarge(ext.text)
                => /\ ext.pc = "returned"
                   /\ ext.result.charge = NumV(Float(ext.text[1]))
                   /\ ext.result.discharge = NumV(Float(ext.text[5]))
           /\ IsFraction(ext.text)
                => /\ ext.pc = "returned"
                   /\ ext.result.charge = NumV(Rat(ext.text[3].d, ext.text[3].n))
                   /\ ext.result.discharge = ext.result.charge

\* C14: standardize_json_data is idempotent: a second call on the list the
\* first call returned, with the same full text, returns and leaves every
\* field of every record as the first call left it.
C14_Idempotent ==
    std.pc \in {"returned again", "raised again"}
        => std.pc = "returned again" /\ std.data = std.previous

\* C15: whether standardize_json_data returns or ends in an exception, no
\* record of the caller's list carries the key "raw_text" afterwards, and
\* every key an input record had is still there.
C15_RawTextNeverVisible ==
    std.pc \in {"returned", "raised"}
        => \A i \in 1..Len(std.data) :
                /\ ~Has(std.data[i], Key.RawText)
                /\ DOMAIN std.json_data[i] \subseteq DOMAIN std.data[i]

\* C16: the secondary reader is consulted only when the primary reader
\* returned None or a text that is empty or white space; when the last reader
\* consulted gave no text either, the document is skipped: no model call is
\* made, no record is written, the error counters stay as they were,
\* processed_files grows by exactly 1 and the run goes on.
C16_UnreadableIsSkipped ==
    /\ Len(doc.readers) = 2 => Unreadable(doc.readers[1])
    /\ (doc.readers # <<>> /\ Unreadable(doc.readers[Len(doc.readers)])) =>
            /\ Len(doc.readers) = 2
            /\ doc.done
            /\ doc.calls = <<>>
            /\ doc.cls = "unset" /\ doc.ext = "unset"
            /\ call.pc = "idle"
            /\ LastIndex \notin output.files
            /\ doc.written = <<>>
            /\ stats.first_model_errors = stats0.first_model_errors
            /\ stats.second_model_errors = stats0.second_model_errors
            /\ stats.processed_files = stats0.processed_files + 1
            /\ RunGoesOn

\* both readers gave no text, the document is skipped and another follows
C16_Witness ==
    /\ Len(doc.readers) = 2
    /\ doc.readers[1].none
    /\ ~doc.readers[2].none /\ doc.readers[2].text = <<W("ws")>>
    /\ doc.done
    /\ stats.processed_files = stats0.processed_files + 1
    /\ main_pc = "loop"
    /\ pdf_index <= stats.total_files

\* C17: a response without usage information (no usage attribute, usage
\* None, or a token count missing) ends neither the document nor counts as
\* an error: the call time of the stage is added, the token totals of the
\* stage stay as they were, and the document goes on to the verdict (first
\* stage) or to the parsing of the JSON (second stage).
C17_MissingUsage ==
    /\ (doc.cls = "response" /\ doc.ext = "unset" /\ doc.usage[1] # "full") =>
            /\ stats.total_first_model_time > stats0.total_first_model_time
            /\ stats.total_first_model_input_tokens
                    = stats0.total_first_model_input_tokens
            /\ stats.total_first_model_output_tokens
                    = stats0.total_first_model_output_tokens
            /\ stats.first_model_errors = stats0.first_model_errors
            /\ stats.second_model_errors = stats0.second_model_errors
            /\ doc.verdict # <<>>
            /\ IF IsNegative(doc.verdict) THEN doc.done ELSE doc.pc = "extracting"
    /\ (doc.ext = "response" /\ doc.usage[2] # "full") =>
            /\ stats.total_second_model_time > stats0.total_second_model_time
            /\ stats.total_second_model_input_tokens
                    = stats0.total_second_model_input_tokens
            /\ stats.total_second_model_output_tokens
                    = stats0.total_second_model_output_tokens
            /\ doc.parse # "unset"
            /\ doc.parse = "written" =>
                    /\ stats.first_model_errors = stats0.first_model_errors
                    /\ stats.second_model_errors = stats0.second_model_errors

\* C18: in a call of call_model_safely the wait after an attempt is the short
\* wait when the attempt got a response without choices and another attempt
\* follows, the long wait when it raised and another attempt follows, and
\* there is no wait after an attempt that no attempt follows.
C18_WaitOnlyBetweenAttempts ==
    call.outcome # "none" =>
        call.slept = CASE call.pc # "running" -> 0
                       [] call.outcome = "no_choices" -> ShortWait
                       [] call.outcome = "exception" -> LongWait
                       [] OTHER -> 0

\* the number of characters of a text of runs
RECURSIVE CharLen(_)
CharLen(text) == IF text = <<>> THEN 0 ELSE Head(text).n + CharLen(Tail(text))

\* the runs where an abstract-marker keyword occurs in the text
MarkerOccurrences(text) ==
    {i \in 1..Len(text) :
        \E k \in 1..Len(abstract_keywords) : KeywordAt(abstract_keywords[k], text, i)}

\* the end of the marker at the occurrence that comes first in the text
FirstMarkerEnd(text) ==
    LET i == CHOOSE i \in MarkerOccurrences(text) :
                \A j \in MarkerOccurrences(text) : i <= j
        k == CHOOSE k \in 1..Len(abstract_keywords) :
                KeywordAt(abstract_keywords[k], text, i)
    IN  MarkerEnd(abstract_keywords[k], text, i)

\* C19: for a text with an abstract-marker keyword, extract_abstract gives
\* the abstract that starts after the marker occurrence that comes first in
\* the text among the occurrences of all the keywords; for a text without
\* marker it gives the first 1000 characters; the result has at most 2000
\* characters.
C19_AbstractStart ==
    (ext.pc = "returned" /\ ext.fn = "extract_abstract")
        => /\ CharLen(ext.result) <= AbstractLimit
           /\ ext.result = IF MarkerOccurrences(ext.text) = {}
                           THEN TakeChars(ext.text, AbstractFallback)
                           ELSE AbstractFrom(ext.text, FirstMarkerEnd(ext.text))

\* C20: every call of process_pdf adds exactly 1 to processed_files, on
\* whatever path it returns, and nothing before it returns: processed_files
\* is the number of calls that have returned, it never exceeds total_files,
\* and it equals total_files when the summary is emitted.
C20_ProcessedFiles ==
    /\ doc.done => stats.processed_files = stats0.processed_files + 1
    /\ doc.pc # "idle" => stats.processed_files = stats0.processed_files
    /\ main_pc \in {"loop", "done"} => stats.processed_files = LastIndex
    /\ stats.processed_files <= stats.total_files
    /\ output.summary => stats.processed_files = stats.total_files

\* the summary of a run of two documents or more whose last document ended
\* in the outer exception handler
C20_Witness ==
    /\ output.summary
    /\ stats.total_files >= 2
    /\ stats.processed_files = stats.total_files
    /\ doc.done
    /\ doc.parse = "raised"

\* C21: between two documents, the document that has just returned added 1
\* to at most one of first_model_errors, second_model_errors and
\* successfully_extracted_files; successfully_extracted_files +
\* second_model_errors <= battery_related_files <= processed_files;
\* first_model_errors <= processed_files; so the denominators of the average
\* call times of print_stats are never negative.
C21_CounterBounds ==
    doc.pc = "idle" =>
        /\ stats.first_model_errors - stats0.first_model_errors \in {0, 1}
        /\ stats.second_model_errors - stats0.second_model_errors \in {0, 1}
        /\ stats.successfully_extracted_files
                - stats0.successfully_extracted_files \in {0, 1}
        /\ (stats.first_model_errors - stats0.first_model_errors)
             + (stats.second_model_errors - stats0.second_model_errors)
             + (stats.successfully_extracted_files
                    - stats0.successfully_extracted_files) <= 1
        /\ stats.successfully_extracted_files + stats.second_model_errors
                <= stats.battery_related_files
        /\ stats.battery_related_files <= stats.processed_files
        /\ stats.first_model_errors <= stats.processed_files
        /\ stats.processed_files - stats.first_model_errors >= 0
        /\ stats.battery_related_files - stats.second_model_errors >= 0

\* the summary of a run whose first document ended in the outer handler and
\* whose second document had an answer that is not JSON
C21_Witness ==
    /\ output.summary
    /\ doc.done
    /\ doc.parse = "decode_error"
    /\ stats.first_model_errors = 1
    /\ stats.second_model_errors = 1
    /\ stats.battery_related_files = 2
    /\ stats.processed_files = 2

\* C22: first_model_errors grows only for a failure of the classification
\* stage, and a document that fails after a positive verdict (extraction
\* call absent, answer that is not JSON or not a list of records, exception
\* of standardize_json_data or of the writing of the file) adds 1 to
\* second_model_errors and nothing to first_model_errors.
C22_StageSpecificErrors ==
    /\ stats.first_model_errors # stats0.first_model_errors =>
            /\ doc.cls = "absent"
            /\ doc.calls = <<"classification">>
    /\ (doc.done /\ doc.calls = <<"classification", "extraction">>
            /\ doc.parse # "written") =>
            /\ stats.second_model_errors = stats0.second_model_errors + 1
            /\ stats.first_model_errors = stats0.first_model_errors

\* C23: normalization is total: no call of standardize_json_data, on a list
\* of records from the model or on the list a first call returned, and no call
\* of an extractor ends in an exception, whatever the full text holds, "C/0"
\* included.
C23_NormalizationTotal ==
    /\ std.pc \notin {"raised", "raised again"}
    /\ ext.pc # "raised"

=============================================================================
